---- MODULE Spec2Model ----
(***************************************************************************)
(* Model of src/utils.py: the S&P 500 price fetch                          *)
(* (get_snp_500_values_per_company, get_snp_500_values) and the return     *)
(* calculators (simple_returns, continuously_compound_returns and the two  *)
(* compounding functions).                                                 *)
(*                                                                         *)
(* Floating point numbers are modelled as exact rationals extended with    *)
(* the IEEE special values NaN, +inf and -inf; rounding is abstracted.     *)
(* A natural logarithm of a positive rational is kept symbolically.        *)
(***************************************************************************)
EXTENDS Integers, Sequences, FiniteSets, TLC

\* ------------------------------------------------------------------ bounds
MaxRows == 3
MaxTickers == 2

\* The instruments (columns) of the price tables fed to the calculators.
Instruments == {"X", "Y"}
\* The finite prices a cell of such a table is drawn from.
PriceLevels == {0, 1, 2}

\* ------------------------------------------------- floating point values
\* A value is a record [k, n, d]:
\*   k = "num": the rational n/d in lowest terms, d > 0
\*   k = "inf": +inf (n = 1) or -inf (n = -1)
\*   k = "nan": NaN, the missing-data marker
\*   k = "ln" : the natural logarithm of the positive rational n/d
Abs(x) == IF x < 0 THEN 0 - x ELSE x

RECURSIVE Gcd(_, _)
Gcd(a, b) == IF b = 0 THEN a ELSE Gcd(b, a % b)

Rat(n, d) ==
    LET s == IF d < 0 THEN 0 - 1 ELSE 1
        g == Gcd(Abs(n), Abs(d))
    IN  [k |-> "num", n |-> (s * n) \div g, d |-> (s * d) \div g]

Num(n) == Rat(n, 1)
NaN == [k |-> "nan", n |-> 0, d |-> 1]
Inf(s) == [k |-> "inf", n |-> s, d |-> 1]
Ln(n, d) == [k |-> "ln", n |-> Rat(n, d).n, d |-> Rat(n, d).d]
One == Num(1)
Zero == Num(0)

IsNaN(v) == v.k = "nan"
Sign(v) == IF v.n > 0 THEN 1 ELSE IF v.n < 0 THEN 0 - 1 ELSE 0

\* a / b as the floating point unit computes it (a zero divisor is +0.0).
FDiv(a, b) ==
    IF IsNaN(a) \/ IsNaN(b) THEN NaN
    ELSE IF a.k = "inf"
         THEN IF b.k = "inf" THEN NaN
              ELSE Inf(a.n * (IF b.n < 0 THEN 0 - 1 ELSE 1))
    ELSE IF b.k = "inf" THEN Zero
    ELSE IF b.n = 0
         THEN IF a.n = 0 THEN NaN ELSE Inf(Sign(a))
    ELSE Rat(a.n * b.d, a.d * b.n)

FAdd(a, b) ==
    IF IsNaN(a) \/ IsNaN(b) THEN NaN
    ELSE IF a.k = "inf"
         THEN IF b.k = "inf" /\ b.n # a.n THEN NaN ELSE a
    ELSE IF b.k = "inf" THEN b
    ELSE Rat(a.n * b.d + b.n * a.d, a.d * b.d)

FNeg(a) == [a EXCEPT !.n = 0 - a.n]

FSub(a, b) == FAdd(a, FNeg(b))

FMul(a, b) ==
    IF IsNaN(a) \/ IsNaN(b) THEN NaN
    ELSE IF a.k = "inf" \/ b.k = "inf"
         THEN IF Sign(a) * Sign(b) = 0 THEN NaN ELSE Inf(Sign(a) * Sign(b))
    ELSE Rat(a.n * b.n, a.d * b.d)

\* np.log: log(0) = -inf, log(+inf) = +inf, log of a negative number = NaN.
FLog(a) ==
    IF IsNaN(a) THEN NaN
    ELSE IF a.k = "inf" THEN (IF a.n > 0 THEN Inf(1) ELSE NaN)
    ELSE IF a.n < 0 THEN NaN
    ELSE IF a.n = 0 THEN Inf(0 - 1)
    ELSE Ln(a.n, a.d)

\* The sum of two logarithms (or infinities): ln p + ln q = ln (p * q).
LnAdd(a, b) ==
    IF IsNaN(a) \/ IsNaN(b) THEN NaN
    ELSE IF a.k = "inf"
         THEN IF b.k = "inf" /\ b.n # a.n THEN NaN ELSE a
    ELSE IF b.k = "inf" THEN b
    ELSE Ln(a.n * b.n, a.d * b.d)

\* ------------------------------------------------------------ data frames
\* A frame of the calculators: index, the sequence of timestamps, and cols,
\* one sequence of values per instrument, all as long as the index.
Rows(df) == Len(df.index)

EmptyFrame == [index |-> <<>>, cols |-> [c \in Instruments |-> <<>>]]

\* Series.shift(1)
Shift(col) == [j \in 1..Len(col) |-> IF j = 1 THEN NaN ELSE col[j - 1]]

SetMax(S) == CHOOSE m \in S : \A x \in S : x <= m

\* fillna(method="pad"): the last value known at or before each row.
FFill(col) ==
    [j \in 1..Len(col) |->
        LET known == {i \in 1..j : ~IsNaN(col[i])}
        IN  IF known = {} THEN NaN ELSE col[SetMax(known)]]

\* Variant of PctChangeCol that forgets the - 1: the price ratio.
PctChangeNoMinusOne(col, method) ==
    LET data == IF method = "pad" THEN FFill(col) ELSE col
        prev == Shift(data)
    IN  [j \in 1..Len(col) |-> FDiv(data[j], prev[j])]

\* pct_change(): data / data.shift(1) - 1, where data is the column forward
\* filled (fill_method "pad", the default before pandas 3) or as it is
\* (fill_method None, pandas 3).
PctChangeCol(col, method) ==
    LET data == IF method = "pad" THEN FFill(col) ELSE col
        prev == Shift(data)
    IN  [j \in 1..Len(col) |-> FSub(FDiv(data[j], prev[j]), One)]

pct_change(df, method) ==
    [index |-> df.index,
     cols |-> [c \in DOMAIN df.cols |-> PctChangeCol(df.cols[c], method)]]

\* DataFrame.dropna(): every row with a NaN in any column is removed.
dropna(df) ==
    LET Keep(j) == \A c \in DOMAIN df.cols : ~IsNaN(df.cols[c][j])
        pos == SelectSeq([j \in 1..Rows(df) |-> j], Keep)
    IN  [index |-> [m \in 1..Len(pos) |-> df.index[pos[m]]],
         cols |-> [c \in DOMAIN df.cols |->
                     [m \in 1..Len(pos) |-> df.cols[c][pos[m]]]]]

simple_returns(prices_, method) == dropna(pct_change(prices_, method))

LogChangeCol(col) ==
    LET prev == Shift(col)
    IN  [j \in 1..Len(col) |-> FLog(FDiv(col[j], prev[j]))]

continuously_compound_returns(prices_) ==
    dropna([index |-> prices_.index,
            cols |-> [c \in DOMAIN prices_.cols |-> LogChangeCol(prices_.cols[c])]])

\* prod() and sum() skip NaN and fold from the left.
RECURSIVE Prod(_)
Prod(col) ==
    IF col = <<>> THEN One
    ELSE LET last == col[Len(col)]
             init == Prod(SubSeq(col, 1, Len(col) - 1))
         IN  IF IsNaN(last) THEN init ELSE FMul(init, last)

RECURSIVE LnSum(_)
LnSum(col) ==
    IF col = <<>> THEN Ln(1, 1)
    ELSE LET last == col[Len(col)]
             init == LnSum(SubSeq(col, 1, Len(col) - 1))
         IN  IF IsNaN(last) THEN init ELSE LnAdd(init, last)

\* Variant of compound_simple_returns_over_period that adds the returns up.
CompoundAsSum(returns) ==
    [c \in DOMAIN returns.cols |->
        LET col == returns.cols[c]
            RECURSIVE S(_)
            S(j) == IF j = 0 THEN Zero ELSE FAdd(S(j - 1), col[j])
        IN  S(Len(col))]

compound_simple_returns_over_period(returns) ==
    [c \in DOMAIN returns.cols |->
        LET col == returns.cols[c]
        IN  FSub(Prod([j \in 1..Len(col) |-> FAdd(One, col[j])]), One)]

compound_continuous_returns_over_period(returns) ==
    [c \in DOMAIN returns.cols |-> LnSum(returns.cols[c])]

\* ------------------------------------------------- the price provider
\* Ticker symbols are sequences of characters.
AAPL == <<"A", "A", "P", "L">>
BRK_B == <<"B", "R", "K", ".", "B">>
BF_B == <<"B", "F", ".", "B">>
A_B_C == <<"A", ".", "B", ".", "C">>
GSPC == <<"^", "G", "S", "P", "C">>

\* The symbols the constituent listing may hold, and the listings themselves:
\* up to MaxTickers symbols, each listed once.
Symbols == {AAPL, BRK_B, BF_B, A_B_C}
Pages ==
    UNION {{p \in [1..n -> Symbols] : \A a, b \in 1..n : p[a] = p[b] => a = b} :
           n \in 1..MaxTickers}

\* What the provider knows of one ticker: a quote on some of the trading days.
TradingDays == {1, 2}
Quotes == {1, 2}
SeriesData == UNION {[D -> Quotes] : D \in SUBSET TradingDays}

Range(f) == {f[x] : x \in DOMAIN f}

SetMin(S) == CHOOSE m \in S : \A x \in S : m <= x

RECURSIVE SortedSeq(_)
SortedSeq(S) ==
    IF S = {} THEN <<>>
    ELSE <<SetMin(S)>> \o SortedSeq(S \ {SetMin(S)})

VARIABLES
    pc,          \* where the running call stands
    prices,      \* the price table handed to the return calculators
    fill_method, \* pct_change's default fill_method in the installed pandas
    sret,        \* simple_returns(prices)
    lret,        \* continuously_compound_returns(prices)
    csimple,     \* compound_simple_returns_over_period(sret)
    clog,        \* compound_continuous_returns_over_period(lret)
    entry,       \* the fetch function called
    page,        \* the Symbol column of the constituent listing
    market,      \* the provider's data: ticker -> trading day -> quote
    wiki,        \* how reading the listing ended
    tickers,     \* the local tickers
    requests,    \* the price requests issued so far, in order
    parts,       \* the fallback's dict under construction
    idx,         \* the fallback's position in tickers
    result,      \* the value returned
    err          \* the exception raised

vars == <<pc, prices, fill_method, sret, lret, csimple, clog, entry, page,
          market, wiki, tickers, requests, parts, idx, result, err>>
calcVars == <<prices, fill_method, sret, lret, csimple, clog>>
fetchVars == <<entry, page, market, wiki, tickers, requests, parts, idx, result, err>>

\* A fetched value: shape "frame" (keys, index, val[key][day]), shape "series"
\* (index, val[day]) or shape "none" (nothing returned).
NoResult == [shape |-> "none", keys |-> {}, index |-> <<>>, val |-> <<>>]

\* yf.download(t, ...)["Adj Close"] for one ticker: the days the ticker traded.
ProviderSeries(t) ==
    [shape |-> "series", keys |-> {},
     index |-> SortedSeq(DOMAIN market[t]),
     val |-> [d \in DOMAIN market[t] |-> Num(market[t][d])]]

\* yf.download(tickers, ...)["Adj Close"]: one column per distinct ticker over
\* the days any of them traded, NaN where a ticker has no quote.
ProviderFrame(K) ==
    LET days == UNION {DOMAIN market[k] : k \in K}
    IN  [shape |-> "frame", keys |-> K, index |-> SortedSeq(days),
         val |-> [k \in K |->
                    [d \in days |-> IF d \in DOMAIN market[k]
                                    THEN Num(market[k][d]) ELSE NaN]]]

\* A single ticker is answered with a frame or with a bare series.
BulkAnswers(tk) ==
    {ProviderFrame(Range(tk))}
        \cup (IF Cardinality(Range(tk)) = 1 THEN {ProviderSeries(tk[1])} ELSE {})

\* Variant of DataFrame that keeps only the days every series has.
DataFrameInner(d) ==
    LET days == {x \in TradingDays : \A k \in DOMAIN d : x \in DOMAIN d[k].val}
    IN  [shape |-> "frame", keys |-> DOMAIN d, index |-> SortedSeq(days),
         val |-> [k \in DOMAIN d |-> [x \in days |-> d[k].val[x]]]]

\* pd.DataFrame(dict of series): the union of the indexes, NaN where absent.
DataFrame(d) ==
    LET days == UNION {DOMAIN d[k].val : k \in DOMAIN d}
    IN  [shape |-> "frame", keys |-> DOMAIN d, index |-> SortedSeq(days),
         val |-> [k \in DOMAIN d |->
                    [x \in days |-> IF x \in DOMAIN d[k].val
                                    THEN d[k].val[x] ELSE NaN]]]

\* Series.to_frame(name)
to_frame(s, name) ==
    [shape |-> "frame", keys |-> {name}, index |-> s.index,
     val |-> [k \in {name} |-> s.val]]

\* Variant of NormalizeFrame that returns the answer as it came.
KeepShape(adj, tk) == adj

\* if isinstance(adj, pd.Series): adj = adj.to_frame(name=tickers[0])
NormalizeFrame(adj, tk) ==
    IF adj.shape = "series" THEN to_frame(adj, tk[1]) ELSE adj

\* Variant of replace that replaces the first period only: t.replace('.', '-', 1).
ReplaceFirst(t) ==
    [j \in 1..Len(t) |->
        IF t[j] = "." /\ (\A m \in 1..(j - 1) : t[m] # ".") THEN "-" ELSE t[j]]

\* t.replace('.', '-')
replace(t) == [j \in 1..Len(t) |-> IF t[j] = "." THEN "-" ELSE t[j]]

\* [t.replace('.', '-') for t in tickers]
Normalized(p) == [j \in 1..Len(p) |-> replace(p[j])]

\* A request of the log: its kind, the tickers asked for, whether it succeeded
\* and the shape of the answer.
Request(kind, tk, ok, shape) ==
    [kind |-> kind, tickers |-> tk, ok |-> ok, shape |-> shape]

\* ------------------------------------------------ the return calculators
Cells == {NaN} \cup {Num(p) : p \in PriceLevels}

PriceTable(n, cols) == [index |-> [j \in 1..n |-> j], cols |-> cols]

\* The columns of the tables of n rows.
Columns(n) == [Instruments -> [1..n -> Cells]]

\* The worked example: prices 100, 110, 121.
ExampleCol == <<Num(100), Num(110), Num(121)>>
ExampleTable == PriceTable(3, [c \in Instruments |-> ExampleCol])

NoCalc ==
    /\ prices = EmptyFrame
    /\ fill_method = "none"
    /\ sret = EmptyFrame
    /\ lret = EmptyFrame
    /\ csimple = [c \in Instruments |-> NaN]
    /\ clog = [c \in Instruments |-> NaN]

NoFetch ==
    /\ entry = "none"
    /\ page = <<>>
    /\ market = <<>>
    /\ wiki = "pending"
    /\ tickers = <<>>
    /\ requests = <<>>
    /\ parts = <<>>
    /\ idx = 0
    /\ result = NoResult
    /\ err = "none"

InitReturns ==
    /\ pc = "prices"
    /\ \/ \E n \in 1..MaxRows : \E cols \in Columns(n) : prices = PriceTable(n, cols)
       \/ prices = ExampleTable
    /\ fill_method \in {"pad", "none"}
    /\ sret = EmptyFrame
    /\ lret = EmptyFrame
    /\ csimple = [c \in Instruments |-> NaN]
    /\ clog = [c \in Instruments |-> NaN]
    /\ NoFetch

SimpleReturns ==
    /\ pc = "prices"
    /\ sret' = simple_returns(prices, fill_method)
    /\ pc' = "simple"
    /\ UNCHANGED <<prices, fill_method, lret, csimple, clog, fetchVars>>

ContinuouslyCompoundReturns ==
    /\ pc = "simple"
    /\ lret' = continuously_compound_returns(prices)
    /\ pc' = "log"
    /\ UNCHANGED <<prices, fill_method, sret, csimple, clog, fetchVars>>

CompoundSimple ==
    /\ pc = "log"
    /\ csimple' = compound_simple_returns_over_period(sret)
    /\ pc' = "csimple"
    /\ UNCHANGED <<prices, fill_method, sret, lret, clog, fetchVars>>

CompoundContinuous ==
    /\ pc = "csimple"
    /\ clog' = compound_continuous_returns_over_period(lret)
    /\ pc' = "clog"
    /\ UNCHANGED <<prices, fill_method, sret, lret, csimple, fetchVars>>

NextReturns ==
    \/ SimpleReturns
    \/ ContinuouslyCompoundReturns
    \/ CompoundSimple
    \/ CompoundContinuous

SpecReturns == InitReturns /\ [][NextReturns]_vars

\* --------------------------------------------------------- the price fetch
InitFetch ==
    /\ pc = "start"
    /\ \/ /\ entry = "per_company"
          /\ page \in Pages
          /\ market \in [{replace(s) : s \in Range(page)} -> SeriesData]
       \/ /\ entry = "index"
          /\ page = <<>>
          /\ market \in [{GSPC} -> SeriesData]
    /\ wiki = "pending"
    /\ tickers = <<>>
    /\ requests = <<>>
    /\ parts = <<>>
    /\ idx = 0
    /\ result = NoResult
    /\ err = "none"
    /\ NoCalc

\* pd.read_html and the Symbol column succeed; the tickers are normalized.
ReadHtmlOk ==
    /\ pc = "start"
    /\ entry = "per_company"
    /\ wiki' = "ok"
    /\ tickers' = Normalized(page)
    /\ pc' = "bulk"
    /\ UNCHANGED <<entry, page, market, requests, parts, idx, result, err, calcVars>>

\* Variant of ReadHtmlFail that swallows the exception and goes on with no
\* ticker.
ReadHtmlFailContinue ==
    /\ pc = "start"
    /\ entry = "per_company"
    /\ \E cause \in {"unreachable", "no_symbol"} : wiki' = cause
    /\ pc' = "bulk"
    /\ UNCHANGED <<entry, page, market, tickers, requests, parts, idx, result, err, calcVars>>

\* The page cannot be read or has no Symbol column: RuntimeError is raised.
ReadHtmlFail ==
    /\ pc = "start"
    /\ entry = "per_company"
    /\ \E cause \in {"unreachable", "no_symbol"} : wiki' = cause
    /\ err' = "RuntimeError"
    /\ pc' = "failed"
    /\ UNCHANGED <<entry, page, market, tickers, requests, parts, idx, result, calcVars>>

\* Variant of BulkOk that runs the fallback after a successful bulk download.
BulkOkThenFallback ==
    /\ pc = "bulk"
    /\ requests' = Append(requests, Request("bulk", tickers, TRUE, "frame"))
    /\ parts' = <<>>
    /\ idx' = 1
    /\ pc' = "fallback"
    /\ UNCHANGED <<entry, page, market, wiki, tickers, result, err, calcVars>>

\* The bulk download succeeds; the answer is normalized and returned.
BulkOk ==
    /\ pc = "bulk"
    /\ \E adj \in BulkAnswers(tickers) :
          /\ requests' = Append(requests, Request("bulk", tickers, TRUE, adj.shape))
          /\ result' = NormalizeFrame(adj, tickers)
    /\ pc' = "done"
    /\ UNCHANGED <<entry, page, market, wiki, tickers, parts, idx, err, calcVars>>

\* The bulk download raises: the fallback starts (and ends, with no ticker).
BulkFail ==
    /\ pc = "bulk"
    /\ requests' = Append(requests, Request("bulk", tickers, FALSE, "none"))
    /\ parts' = <<>>
    /\ idx' = 1
    /\ IF tickers = <<>>
       THEN result' = DataFrame(<<>>) /\ pc' = "done"
       ELSE result' = result /\ pc' = "fallback"
    /\ UNCHANGED <<entry, page, market, wiki, tickers, err, calcVars>>

\* One download of the fallback succeeds; after the last one the dict becomes
\* the frame, which is normalized and returned.
TickerOk ==
    /\ pc = "fallback"
    /\ idx <= Len(tickers)
    /\ LET t == tickers[idx]
           d == [k \in DOMAIN parts \cup {t} |->
                    IF k = t THEN ProviderSeries(t) ELSE parts[k]]
       IN  /\ requests' = Append(requests, Request("ticker", <<t>>, TRUE, "series"))
           /\ parts' = d
           /\ idx' = idx + 1
           /\ IF idx = Len(tickers)
              THEN result' = NormalizeFrame(DataFrame(d), tickers) /\ pc' = "done"
              ELSE result' = result /\ pc' = pc
    /\ UNCHANGED <<entry, page, market, wiki, tickers, err, calcVars>>

\* Variant of TickerFail that skips the failing ticker and goes on.
TickerFailSkip ==
    /\ pc = "fallback"
    /\ idx <= Len(tickers)
    /\ requests' = Append(requests, Request("ticker", <<tickers[idx]>>, FALSE, "none"))
    /\ idx' = idx + 1
    /\ IF idx = Len(tickers)
       THEN result' = NormalizeFrame(DataFrame(parts), tickers) /\ pc' = "done"
       ELSE result' = result /\ pc' = pc
    /\ UNCHANGED <<entry, page, market, wiki, tickers, parts, err, calcVars>>

\* One download of the fallback raises: the exception leaves the function.
TickerFail ==
    /\ pc = "fallback"
    /\ idx <= Len(tickers)
    /\ requests' = Append(requests, Request("ticker", <<tickers[idx]>>, FALSE, "none"))
    /\ err' = "DownloadError"
    /\ pc' = "failed"
    /\ UNCHANGED <<entry, page, market, wiki, tickers, parts, idx, result, calcVars>>

\* get_snp_500_values: the provider's answer is returned as it is.
IndexOk ==
    /\ pc = "start"
    /\ entry = "index"
    /\ \E adj \in BulkAnswers(<<GSPC>>) :
          /\ requests' = Append(requests, Request("ticker", <<GSPC>>, TRUE, adj.shape))
          /\ result' = adj
    /\ pc' = "done"
    /\ UNCHANGED <<entry, page, market, wiki, tickers, parts, idx, err, calcVars>>

IndexFail ==
    /\ pc = "start"
    /\ entry = "index"
    /\ requests' = Append(requests, Request("ticker", <<GSPC>>, FALSE, "none"))
    /\ err' = "DownloadError"
    /\ pc' = "failed"
    /\ UNCHANGED <<entry, page, market, wiki, tickers, parts, idx, result, calcVars>>

NextFetch ==
    \/ ReadHtmlOk
    \/ ReadHtmlFail
    \/ BulkOk
    \/ BulkFail
    \/ TickerOk
    \/ TickerFail
    \/ IndexOk
    \/ IndexFail

SpecFetch == InitFetch /\ [][NextFetch]_vars

\* ================================================= claims: the calculators
Missing(t, c) == IsNaN(prices.cols[c][t])

NoMissing(c) == \A t \in 1..Rows(prices) : ~Missing(t, c)

\* The frame holds a return of instrument c at timestamp t.
HasReturn(df, c, t) ==
    \E m \in 1..Rows(df) : df.index[m] = t /\ ~IsNaN(df.cols[c][m])

BothReturnsComputed == pc \in {"log", "csimple", "clog"}

Positive(v) == v.k = "num" /\ v.n > 0

\* Every price of the table is missing or strictly positive.
EveryKnownPricePositive ==
    \A c \in Instruments : \A t \in 1..Rows(prices) :
        Missing(t, c) \/ Positive(prices.cols[c][t])

\* C1: when X has a missing price at timestamp t and Y has none (all known
\* prices being strictly positive), simple
\* returns and log returns leave out X's returns that involve t (at t and at
\* the next timestamp) and still hold Y's return at every timestamp after the
\* first.
C1_MissingPriceCostsOnlyItsOwnReturns ==
    (BothReturnsComputed /\ EveryKnownPricePositive) =>
        \A t \in 1..Rows(prices) :
            (Missing(t, "X") /\ NoMissing("Y")) =>
                \A df \in {sret, lret} :
                    /\ ~HasReturn(df, "X", t)
                    /\ ~HasReturn(df, "X", t + 1)
                    /\ \A u \in 2..Rows(prices) : HasReturn(df, "Y", u)

\* C2: simple returns and log returns never hold the result of a division by
\* a zero price or of the logarithm of a non-positive ratio: every row whose
\* current or prior price is missing, zero or negative is left out.
C2_NoReturnFromNonPositivePrice ==
    BothReturnsComputed =>
        \A df \in {sret, lret} : \A m \in 1..Rows(df) : \A c \in Instruments :
            /\ df.cols[c][m].k # "inf"
            /\ df.index[m] > 1
            /\ Positive(prices.cols[c][df.index[m]])
            /\ Positive(prices.cols[c][df.index[m] - 1])

AllPositive == \A c \in Instruments : \A t \in 1..Rows(prices) : Positive(prices.cols[c][t])

\* C8: for n >= 2 strictly positive prices without missing values, compounding
\* the simple returns gives last price / first price - 1 for each instrument;
\* prices 100, 110, 121 give the returns 1/10, 1/10 and the compounded
\* return 21/100.
C8_CompoundOfSimpleReturns ==
    (pc \in {"csimple", "clog"} /\ Rows(prices) >= 2 /\ AllPositive) =>
        \A c \in Instruments :
            /\ csimple[c] = FSub(FDiv(prices.cols[c][Rows(prices)], prices.cols[c][1]), One)
            /\ prices.cols[c] = ExampleCol =>
                  /\ sret.cols[c] = <<Rat(10, 100), Rat(10, 100)>>
                  /\ csimple[c] = Rat(21, 100)

C8_Witness ==
    /\ pc = "csimple"
    /\ prices = ExampleTable
    /\ csimple["X"] = Rat(21, 100)

\* No price that is the prior price of a return is zero.
NoZeroPrior ==
    \A c \in Instruments : \A t \in 1..(Rows(prices) - 1) : prices.cols[c][t] # Zero

SimpleReturnsComputed == pc \in {"simple", "log", "csimple", "clog"}

\* The frame is the price table without its first timestamp, each value being
\* (price[t] - price[t-1]) / price[t-1].
IsPeriodReturns(df) ==
    /\ Rows(df) = Rows(prices) - 1
    /\ df.index = Tail(prices.index)
    /\ \A c \in Instruments : \A m \in 1..Rows(df) :
          df.cols[c][m] = FDiv(FSub(prices.cols[c][m + 1], prices.cols[c][m]),
                               prices.cols[c][m])

\* C9 as stated: for every non-empty price table without missing values,
\* simple_returns has exactly n-1 rows per instrument, the first timestamp
\* dropped, the others in order, the value at t being
\* (price[t] - price[t-1]) / price[t-1].
C9_AsStated ==
    (SimpleReturnsComputed /\ \A c \in Instruments : NoMissing(c)) =>
        IsPeriodReturns(sret)

\* C9 amended: the same for every non-empty price table without missing
\* values in which no price that has a successor is zero.
C9_SimpleReturnsShape ==
    (SimpleReturnsComputed /\ NoZeroPrior /\ \A c \in Instruments : NoMissing(c)) =>
        IsPeriodReturns(sret)

C9_Witness ==
    /\ pc = "simple"
    /\ NoZeroPrior
    /\ \A c \in Instruments : NoMissing(c)
    /\ Rows(prices) = 3
    /\ sret.index = <<2, 3>>
    /\ sret.cols["X"] = <<Rat(1, 1), Rat(0 - 1, 2)>>

\* ===================================================== claims: the fetch
PerCompany == entry = "per_company"

BulkFailed == requests # <<>> /\ requests[1].kind = "bulk" /\ ~requests[1].ok

\* The tickers of the per-ticker requests issued so far, in order.
TickersAsked ==
    [j \in 1..(Len(requests) - 1) |-> requests[j + 1].tickers[1]]

\* The log starts with the one bulk request for all tickers, followed by
\* per-ticker requests only.
BulkFirstAndOnce ==
    /\ requests # <<>>
    /\ requests[1].kind = "bulk"
    /\ requests[1].tickers = tickers
    /\ \A j \in 2..Len(requests) :
          requests[j].kind = "ticker" /\ Len(requests[j].tickers) = 1

\* C3 as stated: in every run that resolved the ticker list and has ended,
\* the bulk request was issued exactly once and first; when it succeeded no
\* per-ticker request was issued; when it failed exactly one per-ticker
\* request was issued for each ticker, in ticker order.
C3_AsStated ==
    (PerCompany /\ wiki = "ok" /\ pc \in {"done", "failed"}) =>
        /\ BulkFirstAndOnce
        /\ requests[1].ok => Len(requests) = 1
        /\ ~requests[1].ok => TickersAsked = tickers

\* C3 amended: the bulk request is issued exactly once and before any
\* per-ticker request; per-ticker requests are issued only after it failed,
\* one per entry of the ticker list, in order, and stop at the first one that
\* fails; every ticker is asked for exactly once when the run returns a
\* table; none is asked for when the bulk request succeeded.
C3_RequestOrder ==
    PerCompany =>
        /\ (pc \in {"fallback", "done"} \/ (pc = "failed" /\ wiki = "ok")) =>
              requests # <<>>
        /\ requests # <<>> =>
              /\ BulkFirstAndOnce
              /\ requests[1].ok => Len(requests) = 1
              /\ Len(TickersAsked) <= Len(tickers)
              /\ TickersAsked = SubSeq(tickers, 1, Len(TickersAsked))
              /\ \A j \in 2..Len(requests) :
                    ~requests[j].ok => (j = Len(requests) /\ pc = "failed")
              /\ (pc = "done" /\ ~requests[1].ok) => TickersAsked = tickers

C3_Witness ==
    /\ PerCompany
    /\ pc = "done"
    /\ BulkFailed
    /\ Len(tickers) = 2
    /\ tickers[1] # tickers[2]
    /\ TickersAsked = tickers

\* C4: when the bulk request failed and every per-ticker request succeeded,
\* the table returned has the keys, the timestamps and the prices (missing
\* markers included) of the table a successful bulk request would have
\* returned for the same provider data.
C4_FallbackEqualsBulk ==
    (PerCompany /\ pc = "done" /\ BulkFailed) =>
        \A adj \in BulkAnswers(tickers) :
            /\ result.shape = "frame"
            /\ result.keys = NormalizeFrame(adj, tickers).keys
            /\ result.index = NormalizeFrame(adj, tickers).index
            /\ result.val = NormalizeFrame(adj, tickers).val

C4_Witness ==
    /\ PerCompany
    /\ pc = "done"
    /\ BulkFailed
    /\ Cardinality(result.keys) = 2
    /\ Len(result.index) = 2
    /\ \E k \in result.keys : \E d \in TradingDays : IsNaN(result.val[k][d])

TickerRequestFailed ==
    \E j \in 1..Len(requests) : requests[j].kind = "ticker" /\ ~requests[j].ok

\* C5: when the bulk request failed and a per-ticker request of the fallback
\* fails, the call ends with an error and returns no table, partial or
\* default.
C5_FallbackFailureIsFatal ==
    (PerCompany /\ BulkFailed /\ TickerRequestFailed) =>
        /\ pc = "failed"
        /\ err # "none"
        /\ result = NoResult

C5_Witness ==
    /\ PerCompany
    /\ TickerRequestFailed
    /\ Len(requests) = 3
    /\ requests[2].ok
    /\ DOMAIN parts # {}
    /\ pc = "failed"

IsHyphenated(t, raw) ==
    /\ Len(t) = Len(raw)
    /\ \A m \in 1..Len(raw) : t[m] = (IF raw[m] = "." THEN "-" ELSE raw[m])
    /\ \A m \in 1..Len(t) : t[m] # "."
    /\ raw = BRK_B => t = <<"B", "R", "K", "-", "B">>
    /\ raw = AAPL => t = <<"A", "A", "P", "L">>

\* C7: every ticker passed to a price request, bulk or per-ticker, is the
\* listed ticker with each period replaced by a hyphen; the number and the
\* order of the tickers are those of the listing.
C7_TickersNormalized ==
    PerCompany =>
        \A j \in 1..Len(requests) :
            IF requests[j].kind = "bulk"
            THEN /\ Len(requests[j].tickers) = Len(page)
                 /\ \A m \in 1..Len(page) : IsHyphenated(requests[j].tickers[m], page[m])
            ELSE /\ Len(requests[j].tickers) = 1
                 /\ j - 1 \in 1..Len(page)
                 /\ IsHyphenated(requests[j].tickers[1], page[j - 1])

C7_Witness ==
    /\ PerCompany
    /\ page = <<A_B_C, AAPL>>
    /\ Len(requests) = 3
    /\ requests[1].tickers = <<(<<"A", "-", "B", "-", "C">>), AAPL>>
    /\ requests[3].tickers = <<AAPL>>

\* The value returned is a table with exactly the one key t.
OneKeyTable(t) == result.shape = "frame" /\ result.keys = {t}

\* C10 as stated: when exactly one ticker is requested, every successful
\* fetch (of get_snp_500_values_per_company, by the bulk path or by the
\* fallback, and of get_snp_500_values) returns a table with exactly that one
\* key, never a bare sequence.
C10_AsStated ==
    /\ (PerCompany /\ pc = "done" /\ Len(tickers) = 1) => OneKeyTable(tickers[1])
    /\ (entry = "index" /\ pc = "done") => OneKeyTable(GSPC)

\* C10 amended: when exactly one ticker is requested, every successful fetch
\* of get_snp_500_values_per_company returns a table with exactly that one
\* key, whatever the shape of the bulk answer and by either path;
\* get_snp_500_values returns the provider's answer in the shape it came.
C10_SingleTickerTable ==
    /\ (PerCompany /\ pc = "done" /\ Cardinality(Range(tickers)) = 1) =>
          OneKeyTable(tickers[1])
    /\ (entry = "index" /\ pc = "done") => result.shape = requests[1].shape

C10_Witness ==
    /\ PerCompany
    /\ pc = "done"
    /\ tickers = <<AAPL>>
    /\ requests[1].ok
    /\ requests[1].shape = "series"
    /\ OneKeyTable(AAPL)
    /\ Len(result.index) = 2

====
